---- MODULE Spec2Model ----
(***************************************************************************)
(* A model of dash-restful's DashAPI client (lib/DashApi.ts): the query    *)
(* string encoder urlParams, the constructor's base URL normalisation,     *)
(* getUrl, the middleware list, request (body encoding, middleware chain,  *)
(* transport call, status dispatch), the configured error handler, the     *)
(* shortcut methods, the resource factories and DashResource.              *)
(*                                                                         *)
(* Strings are sequences of one-character strings, so that slicing,        *)
(* concatenation and percent-encoding are computed and not assumed.        *)
(* An optional value (a `?` parameter or field) is None or Some(v).        *)
(* A JavaScript object whose key order matters (HttpParams, a JSON body, a *)
(* form body) is a sequence of [k, v] entries with distinct keys; an       *)
(* object compared without order (headers, RequestInit) is a function.     *)
(***************************************************************************)
EXTENDS Integers, Sequences, FiniteSets, TLC

VARIABLES
    baseUrlArg,   \* the constructor's baseUrl argument (None: the default is used)
    baseUrl,      \* DashAPI.baseUrl, as stored by the constructor
    config,       \* DashAPI.config: [errorHandler, options]
    middlewares,  \* DashAPI.middlewares
    call,         \* the request() invocation under observation
    ret,          \* the last value returned by getUrl, with its arguments
    encoded,      \* the last value returned by urlParams, with its argument
    resource,     \* the DashResource made by createResource / createCustomResource
    invoked,      \* the shortcut or resource method that made the observed request
    added,        \* the arguments of the addMiddleware calls made, in call order
    calls         \* request() invocations that may be in flight together, in call order

vars == <<baseUrlArg, baseUrl, config, middlewares, call, ret, encoded, resource,
          invoked, added, calls>>

----------------------------------------------------------------------------
(* Bounds *)

MaxBaseLen == 2
MaxPathLen == 2
MaxParams == 2
MaxMiddlewares == 2
MaxInFlight == 2

----------------------------------------------------------------------------
(* Optional values and strings *)

None == [def |-> FALSE, val |-> <<>>]
Some(v) == [def |-> TRUE, val |-> v]

RECURSIVE Concat(_)
Concat(ss) == IF ss = <<>> THEN <<>> ELSE Head(ss) \o Concat(Tail(ss))

RECURSIVE Join(_, _)
Join(ss, sep) ==
    IF ss = <<>> THEN <<>>
    ELSE IF Len(ss) = 1 THEN ss[1]
    ELSE ss[1] \o sep \o Join(Tail(ss), sep)

SeqsUpTo(S, n) == UNION {[1..k -> S] : k \in 0..n}

Range(f) == {f[i] : i \in DOMAIN f}

\* String.prototype.endsWith, for a one-character suffix
EndsWith(s, c) == Len(s) > 0 /\ s[Len(s)] = c

\* String.prototype.slice(0, -1)
SliceDropLast(s) == IF Len(s) = 0 THEN s ELSE SubSeq(s, 1, Len(s) - 1)

Digit(d) == CASE d = 0 -> "0" [] d = 1 -> "1" [] d = 2 -> "2" [] d = 3 -> "3"
              [] d = 4 -> "4" [] d = 5 -> "5" [] d = 6 -> "6" [] d = 7 -> "7"
              [] d = 8 -> "8" [] d = 9 -> "9"

\* String(n) for a non-negative integer
RECURSIVE NumberToString(_)
NumberToString(n) ==
    IF n < 10 THEN <<Digit(n)>>
    ELSE NumberToString(n \div 10) \o <<Digit(n % 10)>>

----------------------------------------------------------------------------
(* HttpParams values: number | string | Array<number | string> | undefined | null *)

Num(n) == [t |-> "number", n |-> n, s |-> <<>>, a |-> <<>>]
Str(s) == [t |-> "string", n |-> 0, s |-> s, a |-> <<>>]
Arr(a) == [t |-> "array", n |-> 0, s |-> <<>>, a |-> a]
Null == [t |-> "null", n |-> 0, s |-> <<>>, a |-> <<>>]
Undefined == [t |-> "undefined", n |-> 0, s |-> <<>>, a |-> <<>>]

\* String(p) for a number or a string
String(v) == IF v.t = "number" THEN NumberToString(v.n) ELSE v.s

Entry(k, v) == [k |-> k, v |-> v]

HasKey(obj, k) == \E i \in 1..Len(obj) : obj[i].k = k

\* { ...obj, [k]: v }: an existing key keeps its place, a new key goes last
SetKey(obj, k, v) ==
    IF HasKey(obj, k)
    THEN [i \in 1..Len(obj) |-> IF obj[i].k = k THEN Entry(k, v) ELSE obj[i]]
    ELSE Append(obj, Entry(k, v))

----------------------------------------------------------------------------
(* urlParams *)

Unreserved == {"a", "b", "c", "h", "i", "p", "s", "x",
               "0", "1", "2", "3", "4", "5", "6", "7", "8", "9"}

\* encodeURIComponent on one character: the UTF-8 byte as %XX unless unreserved
EncodeChar(c) ==
    IF c \in Unreserved THEN <<c>>
    ELSE CASE c = "+" -> <<"%", "2", "B">>
           [] c = "," -> <<"%", "2", "C">>
           [] c = "/" -> <<"%", "2", "F">>
           [] c = "&" -> <<"%", "2", "6">>
           [] c = "=" -> <<"%", "3", "D">>
           [] c = "?" -> <<"%", "3", "F">>
           [] c = "%" -> <<"%", "2", "5">>
           [] c = " " -> <<"%", "2", "0">>

\* encodeURI in place of encodeURIComponent: ; / ? : @ & = + $ , # stay as they are
encodeURI(s) ==
    Concat([i \in 1..Len(s) |->
               IF s[i] \in {"+", ",", "/", "&", "=", "?"} THEN <<s[i]>>
               ELSE EncodeChar(s[i])])

encodeURIComponent(s) == Concat([i \in 1..Len(s) |-> EncodeChar(s[i])])

\* a reduce callback that skips null and undefined but keeps ''
ConcatParamKeepEmpty(acc, k, v) ==
    IF v.t = "null" \/ v.t = "undefined"
    THEN acc
    ELSE LET vs == IF v.t = "array"
                   THEN [i \in 1..Len(v.a) |-> String(v.a[i])]
                   ELSE <<String(v)>>
         IN  SetKey(acc, k, Join(vs, <<",">>))

\* the reduce callback: skip empty params, join array values with ','
ConcatParam(acc, k, v) ==
    IF v.t = "null" \/ (v.t = "string" /\ v.s = <<>>) \/ v.t = "undefined"
    THEN acc
    ELSE LET vs == IF v.t = "array"
                   THEN [i \in 1..Len(v.a) |-> String(v.a[i])]
                   ELSE <<String(v)>>
         IN  SetKey(acc, k, Join(vs, <<",">>))

RECURSIVE ConcatedParams(_, _)
ConcatedParams(params, acc) ==
    IF params = <<>> THEN acc
    ELSE ConcatedParams(Tail(params),
                        ConcatParam(acc, Head(params).k, Head(params).v))

urlParams(params) ==
    LET concatedParams == ConcatedParams(params, <<>>)
    IN  Join([i \in 1..Len(concatedParams) |->
                 encodeURIComponent(concatedParams[i].k) \o <<"=">>
                     \o encodeURIComponent(concatedParams[i].v)],
             <<"&">>)

----------------------------------------------------------------------------
(* DashAPI: constructor and getUrl *)

DefaultBaseUrl == <<"/", "a", "p", "i">>

RECURSIVE TrimAllSlashes(_)
TrimAllSlashes(s) == IF EndsWith(s, "/") THEN TrimAllSlashes(SliceDropLast(s)) ELSE s

\* a constructor that strips every trailing slash
ConstructorTrimAll(arg) ==
    TrimAllSlashes(IF arg.def THEN arg.val ELSE <<"/", "a", "p", "i">>)

\* constructor(baseUrl = '/api'): trim trailing slash
Constructor(arg) ==
    LET given == IF arg.def THEN arg.val ELSE DefaultBaseUrl
    IN  IF EndsWith(given, "/") THEN SliceDropLast(given) ELSE given

\* a string or undefined used as a condition
Truthy(qs) == qs.def /\ qs.val # <<>>

\* a getUrl that appends the query whenever params is given
getUrlAlwaysQuery(base, path, params) ==
    base \o <<"/">> \o path
         \o (IF params.def THEN <<"?">> \o urlParams(params.val) ELSE <<>>)

\* getUrl(path, params?) on a client whose stored base URL is base
getUrl(base, path, params) ==
    LET qs == IF params.def THEN Some(urlParams(params.val)) ELSE None
    IN  base \o <<"/">> \o path
             \o (IF Truthy(qs) THEN <<"?">> \o qs.val ELSE <<>>)

----------------------------------------------------------------------------
(* Objects compared without key order: headers and RequestInit *)

EmptyObject == <<>>

\* { ...a, ...b }
Spread(a, b) ==
    [k \in DOMAIN a \cup DOMAIN b |-> IF k \in DOMAIN b THEN b[k] ELSE a[k]]

\* obj[k] = v
Put(obj, k, v) == Spread(obj, k :> v)

----------------------------------------------------------------------------
(* JSON text *)

Quote(s) == <<"\"">> \o s \o <<"\"">>

\* JSON.stringify of a flat object of numbers and strings
JSONStringify(obj) ==
    <<"{">>
    \o Join([i \in 1..Len(obj) |->
                Quote(obj[i].k) \o <<":">>
                    \o (IF obj[i].v.t = "number" THEN NumberToString(obj[i].v.n)
                        ELSE Quote(obj[i].v.s))],
            <<",">>)
    \o <<"}">>

\* the objects a JSON body is drawn from: {}, {b: 2}, {r: 'q'}
JsonObjects == {<<>>, <<Entry(<<"b">>, Num(2))>>, <<Entry(<<"r">>, Str(<<"q">>))>>}

\* Response.json(): the object the text denotes, or a SyntaxError
ResponseJson(text) ==
    IF \E o \in JsonObjects : JSONStringify(o) = text
    THEN [ok |-> TRUE, value |-> CHOOSE o \in JsonObjects : JSONStringify(o) = text]
    ELSE [ok |-> FALSE, value |-> <<>>]

----------------------------------------------------------------------------
(* Request bodies *)

\* RequestInit.body: a string, or a FormData (its parts in append order)
StringBody(text) == [kind |-> "string", text |-> text, parts |-> <<>>]
FormDataBody(parts) == [kind |-> "FormData", text |-> <<>>, parts |-> parts]

\* ApiRequestFormBodyValue: string | number | { file: Blob; filename: string }
FormString(s) == [t |-> "string", n |-> 0, s |-> s, file |-> <<>>, filename |-> <<>>]
FormNumber(n) == [t |-> "number", n |-> n, s |-> <<>>, file |-> <<>>, filename |-> <<>>]
FormFile(blob, filename) ==
    [t |-> "object", n |-> 0, s |-> <<>>, file |-> blob, filename |-> filename]

\* FormData.append(key, String(value)) and FormData.append(key, blob, filename)
TextPart(key, text) ==
    [name |-> key, isFile |-> FALSE, text |-> text, blob |-> <<>>, filename |-> <<>>]
FilePart(key, blob, filename) ==
    [name |-> key, isFile |-> TRUE, text |-> <<>>, blob |-> blob, filename |-> filename]

\* the forEach over the form body's keys
FormData(formBody) ==
    [i \in 1..Len(formBody) |->
        LET key == formBody[i].k
            value == formBody[i].v
        IN  IF value.t = "object"
            THEN FilePart(key, value.file, value.filename)
            ELSE TextPart(key, IF value.t = "number" THEN NumberToString(value.n)
                               ELSE value.s)]

----------------------------------------------------------------------------
(* request: headers and options, up to the initial RequestData *)

HasBody(cfg) == cfg.def /\ cfg.val.body.def
HasFormBody(cfg) == cfg.def /\ cfg.val.formBody.def

RequestHeaders(cfg) ==
    IF HasBody(cfg) THEN "Content-Type" :> "application/json" ELSE EmptyObject

\* the body branches with the form body tested first
RequestOptionsFormFirst(conf, method, cfg) ==
    LET base == IF conf.options.def THEN conf.options.val ELSE EmptyObject
        options == Spread(base, "method" :> method)
        withBody ==
            IF HasFormBody(cfg)
            THEN Put(options, "body", FormDataBody(FormData(cfg.val.formBody.val)))
            ELSE IF HasBody(cfg)
            THEN Put(options, "body", StringBody(JSONStringify(cfg.val.body.val)))
            ELSE options
    IN  Put(withBody, "headers", RequestHeaders(cfg))

\* options that start from fixed CORS settings, as before CorsMiddleware existed
RequestOptionsCors(conf, method, cfg) ==
    LET options == ("method" :> method) @@ ("mode" :> "cors")
                       @@ ("credentials" :> "include")
        withBody ==
            IF HasBody(cfg)
            THEN Put(options, "body", StringBody(JSONStringify(cfg.val.body.val)))
            ELSE IF HasFormBody(cfg)
            THEN Put(options, "body", FormDataBody(FormData(cfg.val.formBody.val)))
            ELSE options
    IN  Put(withBody, "headers", RequestHeaders(cfg))

\* base options spread after method, so that they win
RequestOptionsBaseLast(conf, method, cfg) ==
    LET base == IF conf.options.def THEN conf.options.val ELSE EmptyObject
        options == Spread("method" :> method, base)
        withBody ==
            IF HasBody(cfg)
            THEN Put(options, "body", StringBody(JSONStringify(cfg.val.body.val)))
            ELSE IF HasFormBody(cfg)
            THEN Put(options, "body", FormDataBody(FormData(cfg.val.formBody.val)))
            ELSE options
    IN  Put(withBody, "headers", RequestHeaders(cfg))

RequestOptions(conf, method, cfg) ==
    LET base == IF conf.options.def THEN conf.options.val ELSE EmptyObject
        options == Spread(base, "method" :> method)
        withBody ==
            IF HasBody(cfg)
            THEN Put(options, "body", StringBody(JSONStringify(cfg.val.body.val)))
            ELSE IF HasFormBody(cfg)
            THEN Put(options, "body", FormDataBody(FormData(cfg.val.formBody.val)))
            ELSE options
    IN  Put(withBody, "headers", RequestHeaders(cfg))

InitialRequestData(conf, path, method, cfg) ==
    [path |-> path,
     params |-> IF cfg.def THEN cfg.val.params ELSE None,
     options |-> RequestOptions(conf, method, cfg)]

----------------------------------------------------------------------------
(* Middleware *)

HeadersOf(options) ==
    IF "headers" \in DOMAIN options THEN options["headers"] ELSE EmptyObject

\* the two middleware of the request test, and CorsMiddleware
XTestA(data) ==
    [data EXCEPT !.options =
        Put(data.options, "headers",
            Spread(HeadersOf(data.options),
                   ("X-Test" :> "a") @@ ("X-CSRFToken" :> "abcdefg")))]

XTestB(data) ==
    [data EXCEPT !.options =
        Put(data.options, "headers",
            Spread(HeadersOf(data.options), "X-Test" :> "b"))]

CorsMiddleware(requestData) ==
    [requestData EXCEPT !.options =
        Spread(requestData.options,
               ("mode" :> "cors") @@ ("credentials" :> "include"))]

Middlewares == {"XTestA", "XTestB", "CorsMiddleware"}

\* Middleware that return a RequestData of their own making:
\* ({ path, options }) => ({ path, options }), which leaves params out,
DropParams(requestData) == [requestData EXCEPT !.params = None]

\* (data) => ({ ...data, path: 'v/' + data.path }),
RewritePath(requestData) ==
    [requestData EXCEPT !.path = <<"v", "/">> \o requestData.path]

\* and (data) => ({ ...data, params: { ...data.params, x: 1 } })
AddParam(requestData) ==
    [requestData EXCEPT !.params =
        Some(SetKey(IF requestData.params.def THEN requestData.params.val
                    ELSE <<>>,
                    <<"x">>, Num(1)))]

ReplacingMiddlewares == {"DropParams", "RewritePath", "AddParam"}

\* middleware(requestData)
ApplyMiddleware(middleware, requestData) ==
    CASE middleware = "XTestA" -> XTestA(requestData)
      [] middleware = "XTestB" -> XTestB(requestData)
      [] middleware = "CorsMiddleware" -> CorsMiddleware(requestData)
      [] middleware = "DropParams" -> DropParams(requestData)
      [] middleware = "RewritePath" -> RewritePath(requestData)
      [] middleware = "AddParam" -> AddParam(requestData)

\* a forEach that hands every middleware the initial RequestData
RECURSIVE MiddlewareTraceUnchained(_, _)
MiddlewareTraceUnchained(mws, requestData) ==
    IF mws = <<>> THEN <<>>
    ELSE <<[middleware |-> Head(mws), input |-> requestData,
            output |-> ApplyMiddleware(Head(mws), requestData)]>>
             \o MiddlewareTraceUnchained(Tail(mws), requestData)

\* this.middlewares.forEach(...): the invocations made, each with the
\* RequestData it received and the one it returned
RECURSIVE MiddlewareTrace(_, _)
MiddlewareTrace(mws, requestData) ==
    IF mws = <<>> THEN <<>>
    ELSE LET out == ApplyMiddleware(Head(mws), requestData)
         IN  <<[middleware |-> Head(mws), input |-> requestData, output |-> out]>>
                 \o MiddlewareTrace(Tail(mws), out)

\* requestData after the forEach
FinalRequestData(trace, initial) ==
    IF trace = <<>> THEN initial ELSE trace[Len(trace)].output

----------------------------------------------------------------------------
(* Responses, settled values and the status dispatch *)

Response(status, body) == [status |-> status, body |-> body]
NoResponse == Response(0, <<>>)

\* what a request() promise settles with
ValUndefined == [tag |-> "undefined", json |-> <<>>, response |-> NoResponse, str |-> ""]
ValJson(o) == [tag |-> "json", json |-> o, response |-> NoResponse, str |-> ""]
ValResponse(r) == [tag |-> "response", json |-> <<>>, response |-> r, str |-> ""]
ValString(s) == [tag |-> "string", json |-> <<>>, response |-> NoResponse, str |-> s]
ValError(s) == [tag |-> "error", json |-> <<>>, response |-> NoResponse, str |-> s]

Settled(state, value, jsonCalls, handlerCalls) ==
    [state |-> state, value |-> value, jsonCalls |-> jsonCalls,
     handlerCalls |-> handlerCalls]

\* ApiConfig.errorHandler: absent, the handler of the error-handler test
\* (rejects with a message chosen by status), or a handler that resolves
ErrorHandlers == {"none", "rejectMessage", "resolveUndefined"}

errorHandler(handler, res) ==
    IF handler = "rejectMessage"
    THEN [state |-> "rejected",
          value |-> ValString(IF res.status = 400 THEN "Invalid data"
                              ELSE "Unknown error")]
    ELSE [state |-> "resolved", value |-> ValUndefined]

\* return response.json(): the promise request() resolves to
JsonOutcome(response) ==
    LET parsed == ResponseJson(response.body)
    IN  IF parsed.ok THEN Settled("resolved", ValJson(parsed.value), 1, <<>>)
        ELSE Settled("rejected", ValError("SyntaxError"), 1, <<>>)

\* a dispatch that tests the 2xx range before 204
DispatchRangeFirst(conf, response) ==
    IF response.status >= 200 /\ response.status <= 299
    THEN JsonOutcome(response)
    ELSE IF response.status = 204
    THEN Settled("resolved", ValUndefined, 0, <<>>)
    ELSE IF conf.errorHandler # "none"
    THEN LET h == errorHandler(conf.errorHandler, response)
         IN  Settled(h.state, h.value, 0, <<response>>)
    ELSE Settled("rejected", ValResponse(response), 0, <<>>)

\* a dispatch that calls the handler and then rejects with the raw response
DispatchHandlerIgnored(conf, response) ==
    IF response.status = 204
    THEN Settled("resolved", ValUndefined, 0, <<>>)
    ELSE IF response.status >= 200 /\ response.status <= 299
    THEN JsonOutcome(response)
    ELSE IF conf.errorHandler # "none"
    THEN Settled("rejected", ValResponse(response), 0, <<response>>)
    ELSE Settled("rejected", ValResponse(response), 0, <<>>)

\* a dispatch that forgets to reject when no handler is configured
DispatchNoReject(conf, response) ==
    IF response.status = 204
    THEN Settled("resolved", ValUndefined, 0, <<>>)
    ELSE IF response.status >= 200 /\ response.status <= 299
    THEN JsonOutcome(response)
    ELSE IF conf.errorHandler # "none"
    THEN LET h == errorHandler(conf.errorHandler, response)
         IN  Settled(h.state, h.value, 0, <<response>>)
    ELSE Settled("resolved", ValUndefined, 0, <<>>)

\* the dispatch on response.status, after the await
Dispatch(conf, response) ==
    IF response.status = 204
    THEN Settled("resolved", ValUndefined, 0, <<>>)
    ELSE IF response.status >= 200 /\ response.status <= 299
    THEN JsonOutcome(response)
    ELSE IF conf.errorHandler # "none"
    THEN LET h == errorHandler(conf.errorHandler, response)
         IN  Settled(h.state, h.value, 0, <<response>>)
    ELSE Settled("rejected", ValResponse(response), 0, <<>>)

----------------------------------------------------------------------------
(* DashAPI: the shortcut methods and the resource factories *)

\* a call this.request(path, method, config)
RequestCall(path, method, cfg) == [path |-> path, method |-> method, config |-> cfg]

\* the config objects { params }, { params, body } and { params, formBody }
ParamsConfig(params) ==
    Some([params |-> params, body |-> None, formBody |-> None])
BodyConfig(params, body) ==
    Some([params |-> params, body |-> Some(body), formBody |-> None])
FormBodyConfig(params, formBody) ==
    Some([params |-> params, body |-> None, formBody |-> Some(formBody)])

get(path, params) == RequestCall(path, "GET", ParamsConfig(params))

post(path, body, params) == RequestCall(path, "POST", BodyConfig(params, body))

put(path, body, params) == RequestCall(path, "PUT", BodyConfig(params, body))

patch(path, body, params) == RequestCall(path, "PATCH", BodyConfig(params, body))

\* a delete that sends GET
deleteAsGet(path, params) == RequestCall(path, "GET", ParamsConfig(params))

delete(path, params) == RequestCall(path, "DELETE", ParamsConfig(params))

postForm(path, formBody, params) ==
    RequestCall(path, "POST", FormBodyConfig(params, formBody))

\* new DashResource(api, name, params)
DashResource(name, params, custom) ==
    [created |-> TRUE, custom |-> custom, name |-> name, params |-> params]

createResource(name, params) == DashResource(name, params, FALSE)

\* class TestResource extends DashResource: its constructor calls
\* super(api, 'book')
ResourceClasses == {"TestResource"}

createCustomResource(cls) == DashResource(<<"b", "o", "o", "k">>, None, TRUE)

----------------------------------------------------------------------------
(* DashResource *)

\* { ...a, ...b } for objects whose key order matters
RECURSIVE SpreadEntries(_, _)
SpreadEntries(a, b) ==
    IF b = <<>> THEN a
    ELSE SpreadEntries(SetKey(a, Head(b).k, Head(b).v), Tail(b))

\* params ?? {}
OrEmpty(params) == IF params.def THEN params.val ELSE <<>>

\* a merge in which the resource's params win
mergeParamsDefaultsWin(r, params) ==
    SpreadEntries(OrEmpty(params), OrEmpty(r.params))

\* a merge that ignores the caller's null, undefined and '' values
mergeParamsSkipEmpty(r, params) ==
    SpreadEntries(OrEmpty(r.params),
                  SelectSeq(OrEmpty(params),
                            LAMBDA e : /\ e.v.t \notin {"null", "undefined"}
                                       /\ ~(e.v.t = "string" /\ e.v.s = <<>>)))

mergeParams(r, params) == SpreadEntries(OrEmpty(r.params), OrEmpty(params))

\* the methods, with the path templates `${this.name}/`,
\* `${this.name}/${id}/`, `${this.name}/${action}/` and
\* `${this.name}/${id}/${action}/`
list(r, params) == get(r.name \o <<"/">>, Some(mergeParams(r, params)))

retrieve(r, id) == get(r.name \o <<"/">> \o String(id) \o <<"/">>, r.params)

create(r, object) == post(r.name \o <<"/">>, object, None)

update(r, id, object) ==
    put(r.name \o <<"/">> \o String(id) \o <<"/">>, object, None)

resourcePatch(r, id, object) ==
    patch(r.name \o <<"/">> \o String(id) \o <<"/">>, object, None)

resourceDelete(r, id) == delete(r.name \o <<"/">> \o String(id) \o <<"/">>, None)

getAction(r, action, params) == get(r.name \o <<"/">> \o action \o <<"/">>, params)

postAction(r, action, body, params) ==
    post(r.name \o <<"/">> \o action \o <<"/">>, body, params)

\* a detail action whose path names the action before the id
getDetailActionFirst(r, action, id, params) ==
    get(r.name \o <<"/">> \o action \o <<"/">> \o String(id) \o <<"/">>, params)

getDetailAction(r, action, id, params) ==
    get(r.name \o <<"/">> \o String(id) \o <<"/">> \o action \o <<"/">>, params)

postDetailAction(r, action, id, body, params) ==
    post(r.name \o <<"/">> \o String(id) \o <<"/">> \o action \o <<"/">>, body, params)

resourcePostForm(r, action, formBody, params) ==
    postForm(r.name \o <<"/">> \o action \o <<"/">>, formBody, params)

----------------------------------------------------------------------------
(* State *)

NoCall ==
    [state |-> "none", path |-> <<>>, method |-> "", config |-> None,
     initial |-> [path |-> <<>>, params |-> None, options |-> EmptyObject],
     trace |-> <<>>, fetched |-> <<>>, response |-> None, failure |-> None,
     jsonCalls |-> 0, handlerCalls |-> <<>>, value |-> ValUndefined]

NoRet == [called |-> FALSE, path |-> <<>>, params |-> None, url |-> <<>>]

NoEncoded == [called |-> FALSE, params |-> <<>>, result |-> <<>>]

NoResource == [created |-> FALSE, custom |-> FALSE, name |-> <<>>, params |-> None]

\* a method called on the client ("api") or on a resource, with its receiver
\* and arguments
NoInvocation ==
    [on |-> "none", op |-> "", receiver |-> NoResource, path |-> <<>>,
     id |-> None, action |-> None, body |-> None, formBody |-> None,
     params |-> None]

InitClient(args, configs) ==
    /\ baseUrlArg \in args
    /\ baseUrl = Constructor(baseUrlArg)
    /\ config \in configs
    /\ middlewares = <<>>
    /\ call = NoCall
    /\ ret = NoRet
    /\ encoded = NoEncoded
    /\ resource = NoResource
    /\ invoked = NoInvocation
    /\ added = <<>>
    /\ calls = <<>>

----------------------------------------------------------------------------
(* Operations *)

GetUrl(path, params) ==
    /\ ret' = [called |-> TRUE, path |-> path, params |-> params,
               url |-> getUrl(baseUrl, path, params)]
    /\ UNCHANGED <<baseUrlArg, baseUrl, config, middlewares, call, encoded, resource,
                   invoked, added, calls>>

\* an addMiddleware that skips a middleware already in the list
AddMiddlewareDeduplicated(middleware) ==
    /\ Len(middlewares) < MaxMiddlewares
    /\ middlewares' = IF middleware \in Range(middlewares) THEN middlewares
                      ELSE Append(middlewares, middleware)
    /\ added' = Append(added, middleware)
    /\ UNCHANGED <<baseUrlArg, baseUrl, config, call, ret, encoded, resource, invoked,
                   calls>>

\* an addMiddleware whose middleware also reaches the requests in flight
AddMiddlewareRetroactive(middleware) ==
    /\ Len(middlewares) < MaxMiddlewares
    /\ middlewares' = Append(middlewares, middleware)
    /\ added' = Append(added, middleware)
    /\ calls' = [i \in 1..Len(calls) |->
                    IF calls[i].state = "pending"
                    THEN [calls[i] EXCEPT !.fetched =
                            <<[url |-> calls[i].fetched[1].url,
                               options |-> ApplyMiddleware(
                                   middleware,
                                   [path |-> calls[i].path, params |-> None,
                                    options |-> calls[i].fetched[1].options]).options]>>]
                    ELSE calls[i]]
    /\ UNCHANGED <<baseUrlArg, baseUrl, config, call, ret, encoded, resource, invoked>>

AddMiddleware(middleware) ==
    /\ Len(middlewares) < MaxMiddlewares
    /\ middlewares' = Append(middlewares, middleware)
    /\ added' = Append(added, middleware)
    /\ UNCHANGED <<baseUrlArg, baseUrl, config, call, ret, encoded, resource, invoked,
                   calls>>

\* a request() that builds the URL from its own arguments, not from the
\* RequestData the middleware returned
IssuedCallOwnUrl(base, conf, mws, path, method, cfg) ==
    LET initial == InitialRequestData(conf, path, method, cfg)
        trace == MiddlewareTrace(mws, initial)
        requestData == FinalRequestData(trace, initial)
    IN  [NoCall EXCEPT
            !.state = "pending",
            !.path = path, !.method = method, !.config = cfg,
            !.initial = initial,
            !.trace = trace,
            !.fetched = <<[url |-> getUrl(base, path, initial.params),
                           options |-> requestData.options]>>]

\* request(path, method, config?) up to the await, on a client with the given
\* base URL, config and middleware: the call to fetch is made
IssuedCall(base, conf, mws, path, method, cfg) ==
    LET initial == InitialRequestData(conf, path, method, cfg)
        trace == MiddlewareTrace(mws, initial)
        requestData == FinalRequestData(trace, initial)
    IN  [NoCall EXCEPT
            !.state = "pending",
            !.path = path, !.method = method, !.config = cfg,
            !.initial = initial,
            !.trace = trace,
            !.fetched = <<[url |-> getUrl(base, requestData.path,
                                          requestData.params),
                           options |-> requestData.options]>>]

\* request() after the await, the transport having resolved with a response
SettledCall(conf, pending, response) ==
    LET settled == Dispatch(conf, response)
    IN  [pending EXCEPT
            !.state = settled.state,
            !.value = settled.value,
            !.response = Some(response),
            !.jsonCalls = settled.jsonCalls,
            !.handlerCalls = settled.handlerCalls]

\* a request() that hands a transport failure to the configured errorHandler
RejectedCallHandled(conf, pending, reason) ==
    IF conf.errorHandler # "none"
    THEN LET h == errorHandler(conf.errorHandler, NoResponse)
         IN  [pending EXCEPT !.state = h.state, !.value = h.value,
                             !.failure = Some(reason),
                             !.handlerCalls = <<NoResponse>>]
    ELSE [pending EXCEPT !.state = "rejected", !.value = ValError(reason),
                         !.failure = Some(reason)]

\* request() after the await, the transport having rejected: the await throws
RejectedCall(conf, pending, reason) ==
    [pending EXCEPT !.state = "rejected", !.value = ValError(reason),
                    !.failure = Some(reason)]

Request(path, method, cfg) ==
    /\ call.state # "pending"
    /\ call' = IssuedCall(baseUrl, config, middlewares, path, method, cfg)
    /\ UNCHANGED <<baseUrlArg, baseUrl, config, middlewares, ret, encoded, resource,
                   invoked, added, calls>>

\* the transport resolves with a response: request() resumes and dispatches
FetchResolve(status, body) ==
    /\ call.state = "pending"
    /\ call' = SettledCall(config, call, Response(status, body))
    /\ UNCHANGED <<baseUrlArg, baseUrl, config, middlewares, ret, encoded, resource,
                   invoked, added, calls>>

\* the transport rejects: request() rejects with the reason
FetchReject(reason) ==
    /\ call.state = "pending"
    /\ call' = RejectedCall(config, call, reason)
    /\ UNCHANGED <<baseUrlArg, baseUrl, config, middlewares, ret, encoded, resource,
                   invoked, added, calls>>

\* urlParams(params), called on its own
UrlParams(params) ==
    /\ encoded' = [called |-> TRUE, params |-> params, result |-> urlParams(params)]
    /\ UNCHANGED <<baseUrlArg, baseUrl, config, middlewares, call, ret, resource,
                   invoked, added, calls>>

\* a shortcut method called on the client: the request() call it makes
Invoke(rc, invocation) ==
    /\ call.state = "none"
    /\ call' = IssuedCall(baseUrl, config, middlewares, rc.path, rc.method, rc.config)
    /\ invoked' = invocation
    /\ UNCHANGED <<baseUrlArg, baseUrl, config, middlewares, ret, encoded,
                   resource, added, calls>>

OnApi(op, path) == [NoInvocation EXCEPT !.on = "api", !.op = op, !.path = path]

ApiGet(path, params) ==
    Invoke(get(path, params), [OnApi("get", path) EXCEPT !.params = params])

ApiPost(path, body, params) ==
    Invoke(post(path, body, params),
           [OnApi("post", path) EXCEPT !.body = Some(body), !.params = params])

ApiPut(path, body, params) ==
    Invoke(put(path, body, params),
           [OnApi("put", path) EXCEPT !.body = Some(body), !.params = params])

ApiPatch(path, body, params) ==
    Invoke(patch(path, body, params),
           [OnApi("patch", path) EXCEPT !.body = Some(body), !.params = params])

ApiDelete(path, params) ==
    Invoke(delete(path, params), [OnApi("delete", path) EXCEPT !.params = params])

ApiPostForm(path, formBody, params) ==
    Invoke(postForm(path, formBody, params),
           [OnApi("postForm", path) EXCEPT !.formBody = Some(formBody),
                                           !.params = params])

CreateResource(name, params) ==
    /\ resource' = createResource(name, params)
    /\ UNCHANGED <<baseUrlArg, baseUrl, config, middlewares, call, ret, encoded,
                   invoked, added, calls>>

CreateCustomResource(cls) ==
    /\ resource' = createCustomResource(cls)
    /\ UNCHANGED <<baseUrlArg, baseUrl, config, middlewares, call, ret, encoded,
                   invoked, added, calls>>

\* a method called on the resource made last
OnResource(op) ==
    [NoInvocation EXCEPT !.on = "resource", !.op = op, !.receiver = resource]

List(params) ==
    /\ resource.created
    /\ Invoke(list(resource, params), [OnResource("list") EXCEPT !.params = params])

Retrieve(id) ==
    /\ resource.created
    /\ Invoke(retrieve(resource, id), [OnResource("retrieve") EXCEPT !.id = Some(id)])

Create(object) ==
    /\ resource.created
    /\ Invoke(create(resource, object),
              [OnResource("create") EXCEPT !.body = Some(object)])

Update(id, object) ==
    /\ resource.created
    /\ Invoke(update(resource, id, object),
              [OnResource("update") EXCEPT !.id = Some(id), !.body = Some(object)])

ResourcePatch(id, object) ==
    /\ resource.created
    /\ Invoke(resourcePatch(resource, id, object),
              [OnResource("patch") EXCEPT !.id = Some(id), !.body = Some(object)])

ResourceDelete(id) ==
    /\ resource.created
    /\ Invoke(resourceDelete(resource, id),
              [OnResource("delete") EXCEPT !.id = Some(id)])

GetAction(action, params) ==
    /\ resource.created
    /\ Invoke(getAction(resource, action, params),
              [OnResource("getAction") EXCEPT !.action = Some(action),
                                              !.params = params])

PostAction(action, body, params) ==
    /\ resource.created
    /\ Invoke(postAction(resource, action, body, params),
              [OnResource("postAction") EXCEPT !.action = Some(action),
                                               !.body = Some(body),
                                               !.params = params])

GetDetailAction(action, id, params) ==
    /\ resource.created
    /\ Invoke(getDetailAction(resource, action, id, params),
              [OnResource("getDetailAction") EXCEPT !.action = Some(action),
                                                    !.id = Some(id),
                                                    !.params = params])

PostDetailAction(action, id, body, params) ==
    /\ resource.created
    /\ Invoke(postDetailAction(resource, action, id, body, params),
              [OnResource("postDetailAction") EXCEPT !.action = Some(action),
                                                     !.id = Some(id),
                                                     !.body = Some(body),
                                                     !.params = params])

ResourcePostForm(action, formBody, params) ==
    /\ resource.created
    /\ Invoke(resourcePostForm(resource, action, formBody, params),
              [OnResource("postForm") EXCEPT !.action = Some(action),
                                             !.formBody = Some(formBody),
                                             !.params = params])

\* a request() that makes no transport call of its own while an identical
\* call is in flight
RequestInFlightShared(path, method, cfg) ==
    /\ Len(calls) < MaxInFlight
    /\ LET issued == IssuedCall(baseUrl, config, middlewares, path, method, cfg)
       IN  calls' = Append(calls,
                           IF \E i \in 1..Len(calls) : calls[i] = issued
                           THEN [issued EXCEPT !.fetched = <<>>]
                           ELSE issued)
    /\ UNCHANGED <<baseUrlArg, baseUrl, config, middlewares, call, ret, encoded,
                   resource, invoked, added>>

\* request(path, method, config?) called while earlier calls may be in flight
RequestInFlight(path, method, cfg) ==
    /\ Len(calls) < MaxInFlight
    /\ calls' = Append(calls,
                       IssuedCall(baseUrl, config, middlewares, path, method, cfg))
    /\ UNCHANGED <<baseUrlArg, baseUrl, config, middlewares, call, ret, encoded,
                   resource, invoked, added>>

\* the transport resolves the i-th call's fetch
ResponseArrives(i, status, body) ==
    /\ i \in 1..Len(calls)
    /\ calls[i].state = "pending"
    /\ calls' = [calls EXCEPT ![i] = SettledCall(config, calls[i],
                                                 Response(status, body))]
    /\ UNCHANGED <<baseUrlArg, baseUrl, config, middlewares, call, ret, encoded,
                   resource, invoked, added>>

\* the transport rejects the i-th call's fetch
TransportFails(i, reason) ==
    /\ i \in 1..Len(calls)
    /\ calls[i].state = "pending"
    /\ calls' = [calls EXCEPT ![i] = RejectedCall(config, calls[i], reason)]
    /\ UNCHANGED <<baseUrlArg, baseUrl, config, middlewares, call, ret, encoded,
                   resource, invoked, added>>

\* list(params) called on the resource while earlier calls may be in flight
ListInFlight(params) ==
    /\ resource.created
    /\ Len(calls) < MaxInFlight
    /\ LET rc == list(resource, params)
       IN  calls' = Append(calls,
                           IssuedCall(baseUrl, config, middlewares, rc.path,
                                      rc.method, rc.config))
    /\ UNCHANGED <<baseUrlArg, baseUrl, config, middlewares, call, ret, encoded,
                   resource, invoked, added>>

\* the one createResource call of a behaviour
CreateResourceOnce(name, params) == ~resource.created /\ CreateResource(name, params)

\* The first request() and the first getUrl() of a behaviour. Neither call
\* changes a field of the client, so a later call meets the state the first
\* one met; the specifications that range over many inputs observe one call.
RequestOnce(path, method, cfg) == call.state = "none" /\ Request(path, method, cfg)

GetUrlOnce(path, params) == ~ret.called /\ GetUrl(path, params)

----------------------------------------------------------------------------
(* Inputs *)

BaseChars == {"s", "/"}
\* the characters of a URL path segment and the separator
PathChars == {"p", "/"}

BaseUrlArgs == {None} \cup {Some(b) : b \in SeqsUpTo(BaseChars, MaxBaseLen)}
Paths == SeqsUpTo(PathChars, MaxPathLen)

ParamKeys == {<<"a">>, <<"h", "+", "i">>}
ParamValues == {Num(1), Str(<<"2">>), Str(<<"h", "+", "i">>), Str(<<>>), Null,
                Undefined, Arr(<<Num(3), Num(4)>>), Arr(<<Str(<<"a">>), Str(<<"b">>)>>)}

\* HttpParams objects of at most MaxParams keys, in every key order
HttpParams ==
    {p \in SeqsUpTo({Entry(k, v) : k \in ParamKeys, v \in ParamValues}, MaxParams) :
        \A i, j \in 1..Len(p) : i # j => p[i].k # p[j].k}

ParamsArgs == {None} \cup {Some(p) : p \in HttpParams}

\* ApiConfig.options: absent, the CORS options, or options that also name
\* method, headers and body
BaseOptions ==
    {None,
     Some(("mode" :> "cors") @@ ("credentials" :> "include")),
     Some(("method" :> "PUT") @@ ("headers" :> ("X-Base" :> "1"))
          @@ ("body" :> StringBody(<<"x">>)) @@ ("cache" :> "no-store"))}

ApiConfigs == [errorHandler : ErrorHandlers, options : BaseOptions]

\* a form body with a string, a number and a file field
FormBodies ==
    {<<Entry(<<"n">>, FormString(<<"v">>)),
       Entry(<<"c">>, FormNumber(1)),
       Entry(<<"f">>, FormFile(<<"t", "e", "s", "t">>, <<"x">>))>>}

RequestParams == {None, Some(<<Entry(<<"a">>, Num(1))>>)}
RequestBodies == {None, Some(<<Entry(<<"r">>, Str(<<"q">>))>>)}
RequestFormBodies == {None} \cup {Some(f) : f \in FormBodies}

ApiRequestConfigs ==
    {None} \cup {Some(c) : c \in [params : RequestParams, body : RequestBodies,
                                  formBody : RequestFormBodies]}

RequestPaths == {<<"p">>}
RequestMethods == {"GET", "POST"}

Statuses == {100} \cup (199..300) \cup {304, 400, 404, 500}
ResponseBodies == {<<>>, JSONStringify(<<Entry(<<"r">>, Str(<<"q">>))>>)}

\* the params urlParams is called with on its own: keys and values that hold
\* the separators, an empty array, and a string equal to a joined array
QueryKeys == {<<"h", "+", "i">>, <<"a", "=">>}
QueryValues ==
    ParamValues \cup {Arr(<<>>), Str(<<"a", ",", "b">>), Str(<<"=", "&", "%">>)}

QueryParams ==
    {p \in SeqsUpTo({Entry(k, v) : k \in QueryKeys, v \in QueryValues}, MaxParams) :
        \A i, j \in 1..Len(p) : i # j => p[i].k # p[j].k}

\* resources: names, default params, and the arguments of their methods
ResourceNames == {<<"b", "o", "o", "k">>, <<"u">>}
DefaultParams ==
    {None,
     Some(<<Entry(<<"a">>, Num(1))>>),
     Some(<<Entry(<<"a">>, Num(1)), Entry(<<"x">>, Str(<<"2">>))>>)}
CallerParams ==
    {None,
     Some(<<Entry(<<"p">>, Str(<<"p">>))>>),
     Some(<<Entry(<<"a">>, Num(3))>>),
     Some(<<Entry(<<"a">>, Undefined)>>)}
Ids == {Num(1), Num(12), Str(<<"x">>)}
ActionNames == {<<"a", "s">>}
Objects == {<<>>, <<Entry(<<"r">>, Str(<<"q">>))>>}

\* what a failing transport rejects with
Reasons == {"TypeError", "AbortError"}

\* the params list is called with: present and empty values for the keys of
\* the default params
ListKeys == {<<"a">>, <<"x">>}
ListValues == {Null, Undefined, Str(<<>>), Num(3)}
ListParams ==
    {None} \cup
    {Some(p) : p \in
        {q \in SeqsUpTo({Entry(k, v) : k \in ListKeys, v \in ListValues}, MaxParams) :
            \A i, j \in 1..Len(q) : i # j => q[i].k # q[j].k}}

----------------------------------------------------------------------------
(* Specifications *)

\* the request pipeline of one client: options, body, middleware, transport call
Init == InitClient({Some(<<"s", "/">>)}, [errorHandler : {"none"}, options : BaseOptions])

Next ==
    \/ \E m \in Middlewares : AddMiddleware(m)
    \/ \E p \in RequestPaths, m \in RequestMethods, c \in ApiRequestConfigs :
          Request(p, m, c)
    \/ \E s \in {200, 400}, b \in ResponseBodies : FetchResolve(s, b)
    \/ FetchReject("TypeError")

Spec == Init /\ [][Next]_vars

\* the status dispatch, over every status, body and error handler
InitDispatch == InitClient({Some(<<"s">>)}, [errorHandler : ErrorHandlers, options : {None}])

DispatchRequestConfigs ==
    {None} \cup {Some([params |-> None, body |-> b, formBody |-> None]) :
                    b \in RequestBodies}

NextDispatch ==
    \/ \E m \in RequestMethods, c \in DispatchRequestConfigs :
          RequestOnce(<<"p">>, m, c)
    \/ \E s \in Statuses, b \in ResponseBodies : FetchResolve(s, b)
    \/ FetchReject("TypeError")

SpecDispatch == InitDispatch /\ [][NextDispatch]_vars

\* URL building, over every base URL, path and params of the bounds
InitUrl == InitClient(BaseUrlArgs, {[errorHandler |-> "none", options |-> None]})

NextUrl == \E p \in Paths, q \in ParamsArgs : GetUrlOnce(p, q)

SpecUrl == InitUrl /\ [][NextUrl]_vars

\* urlParams, over every params object of the bounds
InitParams == InitClient({None}, {[errorHandler |-> "none", options |-> None]})

NextParams == \E p \in QueryParams : UrlParams(p)

SpecParams == InitParams /\ [][NextParams]_vars

\* the methods of a resource made by one of the two factories
InitResource == InitClient({None}, {[errorHandler |-> "none", options |-> None]})

NextResource ==
    \/ \E n \in ResourceNames, d \in DefaultParams : CreateResource(n, d)
    \/ \E cls \in ResourceClasses : CreateCustomResource(cls)
    \/ \E q \in CallerParams : List(q)
    \/ \E id \in Ids : Retrieve(id)
    \/ \E o \in Objects : Create(o)
    \/ \E id \in Ids, o \in Objects : Update(id, o)
    \/ \E id \in Ids, o \in Objects : ResourcePatch(id, o)
    \/ \E id \in Ids : ResourceDelete(id)
    \/ \E a \in ActionNames, q \in CallerParams : GetAction(a, q)
    \/ \E a \in ActionNames, o \in Objects, q \in CallerParams : PostAction(a, o, q)
    \/ \E a \in ActionNames, id \in Ids, q \in CallerParams :
          GetDetailAction(a, id, q)
    \/ \E a \in ActionNames, id \in Ids, o \in Objects, q \in CallerParams :
          PostDetailAction(a, id, o, q)
    \/ \E a \in ActionNames, f \in FormBodies, q \in CallerParams :
          ResourcePostForm(a, f, q)

SpecResource == InitResource /\ [][NextResource]_vars

\* the shortcut methods of a client, with and without middleware
InitShortcut ==
    InitClient({Some(<<"s">>)},
               [errorHandler : {"none", "rejectMessage"},
                options : {o \in BaseOptions : o.def => "cache" \in DOMAIN o.val}])

NextShortcut ==
    \/ \E m \in {"XTestA", "CorsMiddleware"} : AddMiddleware(m)
    \/ \E p \in RequestPaths, q \in RequestParams : ApiGet(p, q)
    \/ \E p \in RequestPaths, b \in Objects, q \in RequestParams : ApiPost(p, b, q)
    \/ \E p \in RequestPaths, b \in Objects, q \in RequestParams : ApiPut(p, b, q)
    \/ \E p \in RequestPaths, b \in Objects, q \in RequestParams : ApiPatch(p, b, q)
    \/ \E p \in RequestPaths, q \in RequestParams : ApiDelete(p, q)
    \/ \E p \in RequestPaths, f \in FormBodies, q \in RequestParams :
          ApiPostForm(p, f, q)
    \/ \E s \in {200, 400}, b \in ResponseBodies : FetchResolve(s, b)
    \/ FetchReject("TypeError")

SpecShortcut == InitShortcut /\ [][NextShortcut]_vars

\* requests through middleware that replace path and params
InitReplace == InitClient({Some(<<"s">>)}, {[errorHandler |-> "none", options |-> None]})

ReplaceRequestConfigs == {None} \cup {ParamsConfig(q) : q \in RequestParams}

NextReplace ==
    \/ \E m \in ReplacingMiddlewares : AddMiddleware(m)
    \/ \E p \in RequestPaths, m \in RequestMethods, c \in ReplaceRequestConfigs :
          RequestOnce(p, m, c)

SpecReplace == InitReplace /\ [][NextReplace]_vars

\* every operation of a client, in any order
InitClientOps ==
    InitClient({None, Some(<<"s">>), Some(<<"s", "/">>)},
               [errorHandler : {"none", "rejectMessage"}, options : {None}])

NextClientOps ==
    \/ \E m \in {"XTestA", "XTestB"} : AddMiddleware(m)
    \/ \E p \in RequestPaths : Request(p, "GET", None)
    \/ \E p \in RequestPaths, q \in RequestParams : GetUrl(p, q)
    \/ \E n \in ResourceNames : CreateResource(n, None)
    \/ \E cls \in ResourceClasses : CreateCustomResource(cls)
    \/ \E s \in {200, 400} : FetchResolve(s, <<>>)
    \/ FetchReject("TypeError")

SpecClientOps == InitClientOps /\ [][NextClientOps]_vars

\* a request whose transport call fails or answers
NextFailure ==
    \/ \E m \in RequestMethods, c \in DispatchRequestConfigs :
          RequestOnce(<<"p">>, m, c)
    \/ \E r \in Reasons : FetchReject(r)
    \/ \E s \in {200, 204, 400, 500}, b \in ResponseBodies : FetchResolve(s, b)

SpecFailure == InitDispatch /\ [][NextFailure]_vars

\* request() calls in flight together, answered in any order
InitConcurrent ==
    InitClient({Some(<<"s">>)},
               [errorHandler : {"none", "rejectMessage"}, options : {None}])

NextConcurrent ==
    \/ \E p \in RequestPaths, q \in RequestParams :
          RequestInFlight(p, "GET", ParamsConfig(q))
    \/ \E i \in 1..MaxInFlight, s \in {200, 400}, b \in ResponseBodies :
          ResponseArrives(i, s, b)
    \/ \E i \in 1..MaxInFlight : TransportFails(i, "TypeError")

SpecConcurrent == InitConcurrent /\ [][NextConcurrent]_vars

\* middleware registered between requests, some of them still in flight
InitLate == InitClient({Some(<<"s">>)}, {[errorHandler |-> "none", options |-> None]})

NextLate ==
    \/ \E m \in {"XTestA", "XTestB"} : AddMiddleware(m)
    \/ CreateResourceOnce(<<"u">>, None)
    \/ \E p \in RequestPaths : RequestInFlight(p, "GET", None)
    \/ ListInFlight(None)
    \/ \E i \in 1..MaxInFlight, b \in ResponseBodies : ResponseArrives(i, 200, b)

SpecLate == InitLate /\ [][NextLate]_vars

\* list on a resource with default params, over empty and present caller values
NextList ==
    \/ \E n \in ResourceNames, d \in DefaultParams : CreateResourceOnce(n, d)
    \/ \E q \in ListParams : List(q)

SpecList == InitResource /\ [][NextList]_vars

----------------------------------------------------------------------------
(* Properties of the request pipeline (Spec) *)

Issued == call.state # "none"

\* the options the transport was called with
FetchOptions == call.fetched[1].options

LastIndexOf(seq, S) == CHOOSE i \in 1..Len(seq) :
    seq[i] \in S /\ \A j \in (i + 1)..Len(seq) : seq[j] \notin S

\* the headers the registered middleware leave on a request, by last writer
ExpectedHeaders(mws, cfg) ==
    LET writers == {"XTestA", "XTestB"}
        xtest == IF \E i \in 1..Len(mws) : mws[i] \in writers
                 THEN "X-Test" :> (IF mws[LastIndexOf(mws, writers)] = "XTestA"
                                   THEN "a" ELSE "b")
                 ELSE EmptyObject
        csrf == IF \E i \in 1..Len(mws) : mws[i] = "XTestA"
                THEN "X-CSRFToken" :> "abcdefg" ELSE EmptyObject
        ctype == IF HasBody(cfg) THEN "Content-Type" :> "application/json"
                 ELSE EmptyObject
    IN  Spread(Spread(xtest, csrf), ctype)

\* C1: a request() call invokes the registered middleware in registration
\* order, each receiving the RequestData the previous one returned (the first
\* the one request built), and the transport gets the last one's options: a
\* header set by several middleware carries the last one's value, and headers
\* set by one of them, and request's own Content-Type, all persist.
C1_MiddlewareOrder ==
    [][(call.state # "pending" /\ call'.state = "pending") =>
        LET t == call'.trace
            sent == call'.fetched[1].options
        IN  /\ Len(t) = Len(middlewares)
            /\ \A i \in 1..Len(t) :
                  /\ t[i].middleware = middlewares[i]
                  /\ t[i].input = IF i = 1 THEN call'.initial ELSE t[i - 1].output
            /\ sent = IF t = <<>> THEN call'.initial.options
                      ELSE t[Len(t)].output.options
            /\ HeadersOf(sent) = ExpectedHeaders(middlewares, call'.config)]_vars

C1_Witness ==
    /\ call.state = "pending"
    /\ middlewares = <<"XTestA", "XTestB">>
    /\ Len(call.trace) = 2
    /\ HasBody(call.config)
    /\ HeadersOf(FetchOptions) =
          ("X-Test" :> "b") @@ ("X-CSRFToken" :> "abcdefg")
              @@ ("Content-Type" :> "application/json")

\* the JSON text of the body {r: 'q'}
BodyText == <<"{", "\"", "r", "\"", ":", "\"", "q", "\"", "}">>

\* the string form of the form body's non-file values 'v' and 1
FormText(value) == IF value.t = "number" THEN <<"1">> ELSE <<"v">>

C7_BaseOptionsLowest ==
    (Issued /\ call.trace = <<>>) =>
        LET o == FetchOptions
            base == IF config.options.def THEN config.options.val ELSE EmptyObject
        IN  /\ \A k \in DOMAIN base \ {"method", "headers", "body"} :
                  k \in DOMAIN o /\ o[k] = base[k]
            /\ o["method"] = call.method
            /\ o["headers"] = IF HasBody(call.config)
                              THEN "Content-Type" :> "application/json"
                              ELSE EmptyObject

C7_Witness ==
    /\ Issued /\ call.trace = <<>>
    /\ config.options.def
    /\ "method" \in DOMAIN config.options.val
    /\ config.options.val["method"] # call.method
    /\ "headers" \in DOMAIN config.options.val
    /\ FetchOptions["cache"] = "no-store"
    /\ FetchOptions["method"] = call.method

----------------------------------------------------------------------------
(* Properties of the status dispatch (SpecDispatch) *)

Responded == call.response.def
Status == call.response.val.status
Success == Status >= 200 /\ Status <= 299

\* C2: status 204 resolves with undefined whatever the body, which is not
\* decoded; any other status in 200..299 takes the JSON-decoding path and
\* resolves with the decoded body (the object whose JSON text the body is); no
\* status outside 200..299 goes through the JSON-decoding path.
C2_SuccessDispatch ==
    Responded =>
        /\ Status = 204 =>
              /\ call.state = "resolved"
              /\ call.value = ValUndefined
              /\ call.jsonCalls = 0
        /\ (Success /\ Status # 204) =>
              /\ call.jsonCalls = 1
              /\ \A o \in JsonObjects :
                    JSONStringify(o) = call.response.val.body =>
                        call.state = "resolved" /\ call.value = ValJson(o)
        /\ ~Success => call.jsonCalls = 0 /\ call.value.tag # "json"

C2_Witness ==
    /\ Responded /\ Status = 204
    /\ call.response.val.body # <<>>
    /\ call.state = "resolved" /\ call.value = ValUndefined

\* C3: for a status outside 200..299, without an errorHandler request rejects
\* with the raw response; with one, the handler is called exactly once, with
\* the raw response, and request settles as the handler's promise does (the
\* test's handler rejects with 'Invalid data' for 400, 'Unknown error' otherwise).
C3_ErrorDispatch ==
    (Responded /\ ~Success) =>
        /\ config.errorHandler = "none" =>
              /\ call.state = "rejected"
              /\ call.value = ValResponse(call.response.val)
              /\ call.handlerCalls = <<>>
        /\ config.errorHandler # "none" =>
              call.handlerCalls = <<call.response.val>>
        /\ config.errorHandler = "rejectMessage" =>
              /\ call.state = "rejected"
              /\ call.value = ValString(IF Status = 400 THEN "Invalid data"
                                        ELSE "Unknown error")
        /\ config.errorHandler = "resolveUndefined" =>
              /\ call.state = "resolved"
              /\ call.value = ValUndefined

C3_Witness ==
    /\ Responded /\ Status = 400
    /\ config.errorHandler = "rejectMessage"
    /\ call.handlerCalls = <<call.response.val>>
    /\ call.state = "rejected" /\ call.value = ValString("Invalid data")

\* C4, as claimed: every response whose status is outside 200..299 gives a
\* rejected outcome, whatever errorHandler is configured.
C4_AlwaysRejected == (Responded /\ ~Success) => call.state = "rejected"

\* C4, amended: a response whose status is outside 200..299 gives a rejected
\* outcome when no errorHandler is configured or the configured handler
\* returns a rejected promise; with a handler that resolves, request resolves.
C4_RejectedUnlessHandlerResolves ==
    (Responded /\ ~Success) =>
        (call.state = "rejected" <=> config.errorHandler # "resolveUndefined")

C4_Witness ==
    /\ Responded /\ Status = 500
    /\ config.errorHandler = "resolveUndefined"
    /\ call.state = "resolved"

----------------------------------------------------------------------------
(* Properties of URL building (SpecUrl) *)

\* C8, as claimed: the URL getUrl returns has no two consecutive '/' where
\* the stored base URL meets the path, for every base URL and path.
C8_NoDoubleSeparator ==
    ret.called =>
        \A i \in {Len(baseUrl), Len(baseUrl) + 1} :
            (i >= 1 /\ i + 1 <= Len(ret.url)) =>
                ~(ret.url[i] = "/" /\ ret.url[i + 1] = "/")

\* C9: the constructor removes exactly one trailing '/' and stores any other
\* base URL as given ('/api' when none is given); so a client built from
\* B + '/' returns for every path and params the URL a client built from B
\* returns, B not ending in '/'.
C9_BaseUrlNormalized ==
    /\ ~baseUrlArg.def => baseUrl = <<"/", "a", "p", "i">>
    /\ (baseUrlArg.def /\ EndsWith(baseUrlArg.val, "/")) =>
          baseUrl \o <<"/">> = baseUrlArg.val
    /\ (baseUrlArg.def /\ ~EndsWith(baseUrlArg.val, "/")) =>
          baseUrl = baseUrlArg.val
    /\ (ret.called /\ baseUrlArg.def /\ EndsWith(baseUrlArg.val, "/")) =>
          LET B == SubSeq(baseUrlArg.val, 1, Len(baseUrlArg.val) - 1)
          IN  ~EndsWith(B, "/") =>
                  ret.url = getUrl(Constructor(Some(B)), ret.path, ret.params)

C9_Witness ==
    /\ baseUrlArg = Some(<<"s", "/">>)
    /\ baseUrl = <<"s">>
    /\ ret.called /\ ret.path = <<>>
    /\ ret.url = <<"s", "/">>

\* params is absent, empty, or holds only null, undefined and '' values
NoQuery(params) ==
    ~params.def \/ \A i \in 1..Len(params.val) :
        \/ params.val[i].v.t \in {"null", "undefined"}
        \/ params.val[i].v.t = "string" /\ params.val[i].v.s = <<>>

\* C10: getUrl returns the stored base URL, '/', the path and then '?' and
\* urlParams(params) exactly when params is given and encodes to a non-empty
\* query string; with params absent, empty or holding only null, undefined
\* and '' values the result contains no '?'.
C10_UrlShape ==
    ret.called =>
        /\ ret.url = baseUrl \o <<"/">> \o ret.path
                         \o (IF ret.params.def /\ urlParams(ret.params.val) # <<>>
                             THEN <<"?">> \o urlParams(ret.params.val) ELSE <<>>)
        /\ NoQuery(ret.params) <=> "?" \notin Range(ret.url)

C10_Witness ==
    /\ ret.called
    /\ ret.params.def /\ Len(ret.params.val) = 2 /\ NoQuery(ret.params)
    /\ ret.url = baseUrl \o <<"/">> \o ret.path

----------------------------------------------------------------------------
(* Properties of urlParams (SpecParams) *)

\* the value is not null, not undefined and not ''
Survives(e) ==
    /\ e.v.t \notin {"null", "undefined"}
    /\ ~(e.v.t = "string" /\ e.v.s = <<>>)

\* a sequence as its elements' string forms joined with ',', a scalar as its
\* string form
Rendered(v) ==
    IF v.t = "array" THEN Join([i \in 1..Len(v.a) |-> String(v.a[i])], <<",">>)
    ELSE String(v)

\* the filtered, comma-joined key/value representation of params
Representation(params) ==
    LET kept == SelectSeq(params, Survives)
    IN  [i \in 1..Len(kept) |-> Entry(kept[i].k, Rendered(kept[i].v))]

\* String.prototype.split, for a one-character separator
RECURSIVE Split(_, _)
Split(s, c) ==
    IF \A i \in 1..Len(s) : s[i] # c THEN <<s>>
    ELSE LET i == CHOOSE n \in 1..Len(s) :
                     s[n] = c /\ \A m \in 1..(n - 1) : s[m] # c
         IN  <<SubSeq(s, 1, i - 1)>> \o Split(SubSeq(s, i + 1, Len(s)), c)

\* the pairs of a query string: none for the empty string
Pairs(query) == IF query = <<>> THEN <<>> ELSE Split(query, "&")

\* C11: urlParams(params) emits one 'key=value' pair, joined by '&' in the
\* iteration order of params, for exactly the keys whose value is not null,
\* not undefined and not ''; a sequence value is rendered as its elements'
\* string forms joined with ',' and a scalar as its string form; key and value
\* are percent-encoded (no separator or other reserved character is left in them);
\* the result is the empty string when no key survives.
C11_QueryString ==
    encoded.called =>
        LET rep == Representation(encoded.params)
            pairs == Pairs(encoded.result)
        IN  /\ Len(pairs) = Len(rep)
            /\ \A i \in 1..Len(rep) :
                  /\ pairs[i] = encodeURIComponent(rep[i].k) \o <<"=">>
                                    \o encodeURIComponent(rep[i].v)
                  /\ \A part \in Range(Split(pairs[i], "=")) :
                        Range(part) \cap {"+", ",", "/", "&", "=", "?", " "} = {}
                  /\ Len(Split(pairs[i], "=")) = 2
            /\ (rep = <<>>) <=> (encoded.result = <<>>)

C11_Witness ==
    /\ encoded.called
    /\ encoded.params = <<Entry(<<"a", "=">>, Str(<<>>)),
                          Entry(<<"h", "+", "i">>, Arr(<<Num(3), Num(4)>>))>>
    /\ encoded.result = <<"h", "%", "2", "B", "i", "=", "3", "%", "2", "C", "4">>

\* the character a %XX escape denotes
Unescape(h1, h2) ==
    CASE <<h1, h2>> = <<"2", "B">> -> "+"
      [] <<h1, h2>> = <<"2", "C">> -> ","
      [] <<h1, h2>> = <<"2", "F">> -> "/"
      [] <<h1, h2>> = <<"2", "6">> -> "&"
      [] <<h1, h2>> = <<"3", "D">> -> "="
      [] <<h1, h2>> = <<"3", "F">> -> "?"
      [] <<h1, h2>> = <<"2", "5">> -> "%"
      [] <<h1, h2>> = <<"2", "0">> -> " "

\* percent-decoding
RECURSIVE decodeURIComponent(_)
decodeURIComponent(s) ==
    IF s = <<>> THEN <<>>
    ELSE IF Head(s) = "%"
    THEN <<Unescape(s[2], s[3])>> \o decodeURIComponent(SubSeq(s, 4, Len(s)))
    ELSE <<Head(s)>> \o decodeURIComponent(Tail(s))

\* is the pair one key and one value around a single '='
WellFormedPair(pair) == Len(Split(pair, "=")) = 2

ParsedPair(pair) ==
    Entry(decodeURIComponent(Split(pair, "=")[1]),
          decodeURIComponent(Split(pair, "=")[2]))

\* C12: splitting urlParams(params) on '&', each pair on '=', and
\* percent-decoding gives back exactly the filtered, comma-joined key/value
\* representation of params; equal params give equal strings, and two params
\* with different representations never encode to the same string.
C12_RoundTrip ==
    encoded.called =>
        LET pairs == Pairs(encoded.result)
        IN  /\ \A i \in 1..Len(pairs) : WellFormedPair(pairs[i])
            /\ [i \in 1..Len(pairs) |-> ParsedPair(pairs[i])]
                   = Representation(encoded.params)
            /\ \A p \in QueryParams :
                  /\ p = encoded.params => urlParams(p) = encoded.result
                  /\ urlParams(p) = encoded.result =>
                        Representation(p) = Representation(encoded.params)

C12_Witness ==
    /\ encoded.called
    /\ encoded.params = <<Entry(<<"a", "=">>, Str(<<"=", "&", "%">>)),
                          Entry(<<"h", "+", "i">>, Str(<<"a", ",", "b">>))>>
    /\ Len(Pairs(encoded.result)) = 2
    /\ ParsedPair(Pairs(encoded.result)[1]) = Entry(<<"a", "=">>, <<"=", "&", "%">>)
    /\ urlParams(<<Entry(<<"a", "=">>, Str(<<"=", "&", "%">>)),
                   Entry(<<"h", "+", "i">>,
                         Arr(<<Str(<<"a">>), Str(<<"b">>)>>))>>) = encoded.result

----------------------------------------------------------------------------
(* Properties of DashResource (SpecResource) *)

OnResourceOp(ops) == invoked.on = "resource" /\ invoked.op \in ops

\* the params the observed request() call was given
SentParams == OrEmpty(call.config.val.params)

KeysOf(obj) == {obj[i].k : i \in 1..Len(obj)}

\* the URL the transport was called with
FetchUrl == call.fetched[1].url

\* C13: list(params) issues a GET to '{name}/' whose query parameters are the
\* shallow merge of the resource's default params and the caller's params:
\* every default key the caller did not supply is kept, every caller key is
\* present with the caller's value, and on a collision the caller's value wins.
C13_ListMerge ==
    OnResourceOp({"list"}) =>
        LET r == invoked.receiver
            defaults == OrEmpty(r.params)
            given == OrEmpty(invoked.params)
        IN  /\ call.method = "GET"
            /\ call.path = r.name \o <<"/">>
            /\ call.config.val.params.def
            /\ KeysOf(SentParams) = KeysOf(defaults) \cup KeysOf(given)
            /\ Len(SentParams) = Cardinality(KeysOf(SentParams))
            /\ \A i \in 1..Len(given) : given[i] \in Range(SentParams)
            /\ \A i \in 1..Len(defaults) :
                  ~HasKey(given, defaults[i].k) => defaults[i] \in Range(SentParams)
            /\ FetchUrl = baseUrl \o <<"/">> \o r.name \o <<"/">>
                              \o (IF urlParams(SentParams) = <<>> THEN <<>>
                                  ELSE <<"?">> \o urlParams(SentParams))

C13_Witness ==
    /\ OnResourceOp({"list"})
    /\ invoked.receiver.name = <<"u">>
    /\ invoked.receiver.params =
          Some(<<Entry(<<"a">>, Num(1)), Entry(<<"x">>, Str(<<"2">>))>>)
    /\ invoked.params = Some(<<Entry(<<"a">>, Num(3))>>)
    /\ FetchUrl = <<"/", "a", "p", "i", "/", "u", "/", "?",
                    "a", "=", "3", "&", "x", "=", "2">>

\* C14, as claimed: for every resource operation the request that reaches the
\* client carries every default param of the resource, merged under the
\* caller's params.
C14_DefaultsOnEveryOperation ==
    invoked.on = "resource" =>
        LET defaults == OrEmpty(invoked.receiver.params)
            given == OrEmpty(invoked.params)
        IN  \A i \in 1..Len(defaults) :
                IF HasKey(given, defaults[i].k)
                THEN \E j \in 1..Len(given) :
                        given[j].k = defaults[i].k /\ given[j] \in Range(SentParams)
                ELSE defaults[i] \in Range(SentParams)

\* the string form of the ids 1, 12 and 'x'
IdText(id) ==
    IF id = Num(1) THEN <<"1">> ELSE IF id = Num(12) THEN <<"1", "2">> ELSE id.s

\* the path of the path-convention table for the invoked operation
TablePath ==
    LET name == invoked.receiver.name
        id == IdText(invoked.id.val)
        action == invoked.action.val
    IN  CASE invoked.op \in {"list", "create"} -> name \o <<"/">>
          [] invoked.op \in {"retrieve", "update", "patch", "delete"} ->
                name \o <<"/">> \o id \o <<"/">>
          [] invoked.op \in {"getAction", "postAction", "postForm"} ->
                name \o <<"/">> \o action \o <<"/">>
          [] invoked.op \in {"getDetailAction", "postDetailAction"} ->
                name \o <<"/">> \o id \o <<"/">> \o action \o <<"/">>

TableMethod ==
    CASE invoked.op \in {"list", "retrieve", "getAction", "getDetailAction"} -> "GET"
      [] invoked.op \in {"create", "postAction", "postDetailAction", "postForm"} ->
            "POST"
      [] invoked.op = "update" -> "PUT"
      [] invoked.op = "patch" -> "PATCH"
      [] invoked.op = "delete" -> "DELETE"

\* the part of a URL before its query string
BeforeQuery(url) ==
    IF "?" \in Range(url) THEN Split(url, "?")[1] ELSE url

\* C15: every resource operation issues the path and method of the
\* path-convention table, for every name, id and action, and create, update,
\* patch, postAction and postDetailAction send the given object as the JSON
\* body (postForm sends a multipart body).
C15_PathTable ==
    invoked.on = "resource" =>
        /\ call.path = TablePath
        /\ call.method = TableMethod
        /\ BeforeQuery(FetchUrl) = baseUrl \o <<"/">> \o TablePath
        /\ FetchOptions["method"] = TableMethod
        /\ invoked.op \in {"create", "update", "patch", "postAction",
                           "postDetailAction"} =>
              /\ FetchOptions["body"] = StringBody(JSONStringify(invoked.body.val))
              /\ HeadersOf(FetchOptions) = ("Content-Type" :> "application/json")
        /\ invoked.op = "postForm" => FetchOptions["body"].kind = "FormData"
        /\ invoked.op \in {"list", "retrieve", "delete", "getAction",
                           "getDetailAction"} => "body" \notin DOMAIN FetchOptions

C15_Witness ==
    /\ OnResourceOp({"postDetailAction"})
    /\ invoked.receiver.custom
    /\ invoked.id = Some(Num(12))
    /\ ~invoked.params.def
    /\ FetchUrl = <<"/", "a", "p", "i", "/", "b", "o", "o", "k", "/",
                    "1", "2", "/", "a", "s", "/">>
    /\ FetchOptions["method"] = "POST"
    /\ FetchOptions["body"] = StringBody(BodyText)

----------------------------------------------------------------------------
(* Properties of the shortcut methods (SpecShortcut) *)

\* the method and the config shape a shortcut fixes
ShortcutMethod ==
    CASE invoked.op = "get" -> "GET"
      [] invoked.op \in {"post", "postForm"} -> "POST"
      [] invoked.op = "put" -> "PUT"
      [] invoked.op = "patch" -> "PATCH"
      [] invoked.op = "delete" -> "DELETE"

ShortcutConfig ==
    Some([params |-> invoked.params,
          body |-> IF invoked.op \in {"post", "put", "patch"} THEN invoked.body
                   ELSE None,
          formBody |-> IF invoked.op = "postForm" THEN invoked.formBody ELSE None])

\* the middleware that were registered when the observed call was made
MiddlewaresAtCall == [i \in 1..Len(call.trace) |-> call.trace[i].middleware]

\* the direct call request(path, method, config) on the same client
DirectCall ==
    IssuedCall(baseUrl, config, MiddlewaresAtCall, invoked.path, ShortcutMethod,
               ShortcutConfig)

\* C16: a shortcut method only fixes the method and config shape of request:
\* get and delete call it with GET/DELETE and {params} (empty headers, no body
\* added), post, put and patch with POST/PUT/PATCH and {params, body} (JSON
\* Content-Type, body the JSON text of the given body), postForm with POST and
\* {params, formBody}; URL, options and outcome are those of the direct call.
C16_Shortcuts ==
    invoked.on = "api" =>
        LET own == call.initial.options
            base == IF config.options.def THEN config.options.val ELSE EmptyObject
        IN  /\ call.path = invoked.path
            /\ call.method = ShortcutMethod
            /\ call.config = ShortcutConfig
            /\ own["method"] = ShortcutMethod
            /\ invoked.op \in {"get", "delete"} =>
                  /\ own["headers"] = EmptyObject
                  /\ "body" \in DOMAIN own => own["body"] = base["body"]
            /\ invoked.op \in {"post", "put", "patch"} =>
                  /\ own["headers"] = ("Content-Type" :> "application/json")
                  /\ own["body"] = StringBody(JSONStringify(invoked.body.val))
            /\ invoked.op = "postForm" =>
                  /\ own["headers"] = EmptyObject
                  /\ own["body"] = FormDataBody(FormData(invoked.formBody.val))
            /\ call.fetched = DirectCall.fetched
            /\ call.state = "pending" => call = DirectCall
            /\ call.response.def =>
                  call = SettledCall(config, DirectCall, call.response.val)
            /\ call.failure.def =>
                  call = RejectedCall(config, DirectCall, call.failure.val)

C16_Witness ==
    /\ invoked.on = "api" /\ invoked.op = "delete"
    /\ invoked.params = Some(<<Entry(<<"a">>, Num(1))>>)
    /\ middlewares = <<"CorsMiddleware">> /\ Len(call.trace) = 1
    /\ FetchUrl = <<"s", "/", "p", "?", "a", "=", "1">>
    /\ FetchOptions["method"] = "DELETE"
    /\ FetchOptions["mode"] = "cors"
    /\ call.response.def /\ call.response.val.status = 200
    /\ call.state = "resolved"

----------------------------------------------------------------------------
(* Properties of replacing middleware (SpecReplace) *)

\* the number of elements of seq that are in S
RECURSIVE Count(_, _)
Count(seq, S) ==
    IF seq = <<>> THEN 0
    ELSE (IF Head(seq) \in S THEN 1 ELSE 0) + Count(Tail(seq), S)

RECURSIVE Repeat(_, _)
Repeat(s, n) == IF n = 0 THEN <<>> ELSE s \o Repeat(s, n - 1)

\* C17: a middleware's return value replaces the RequestData: the transport is
\* called with the URL of the final RequestData's path and params and with its
\* options, so after a middleware that returns no params the request is sent
\* without the caller's query string, after one that rewrites the path it goes
\* to the rewritten path, and later middleware receive the replaced value.
C17_Replacement ==
    Issued =>
        LET t == call.trace
            mws == MiddlewaresAtCall
            final == IF t = <<>> THEN call.initial ELSE t[Len(t)].output
            dropped == \E i \in 1..Len(mws) : mws[i] = "DropParams"
            lastDrop == LastIndexOf(mws, {"DropParams"})
            callerParams == IF call.config.def /\ call.config.val.params.def
                            THEN call.config.val.params.val ELSE <<>>
        IN  /\ call.fetched = <<[url |-> getUrl(baseUrl, final.path, final.params),
                                 options |-> final.options]>>
            /\ final.path = Repeat(<<"v", "/">>, Count(mws, {"RewritePath"}))
                                \o call.path
            /\ BeforeQuery(FetchUrl) = baseUrl \o <<"/">> \o final.path
            /\ \A i \in 1..Len(t) :
                  /\ t[i].middleware = "DropParams" => ~t[i].output.params.def
                  /\ i > 1 => t[i].input = t[i - 1].output
            /\ dropped =>
                  /\ \A e \in Range(callerParams) :
                        ~(final.params.def /\ e \in Range(final.params.val))
                  /\ "?" \in Range(FetchUrl) <=>
                        \E i \in (lastDrop + 1)..Len(mws) : mws[i] = "AddParam"
            /\ ~dropped =>
                  \A e \in Range(callerParams) :
                      final.params.def /\ e \in Range(final.params.val)

C17_Witness ==
    /\ Issued
    /\ MiddlewaresAtCall = <<"DropParams", "RewritePath">>
    /\ call.config = ParamsConfig(Some(<<Entry(<<"a">>, Num(1))>>))
    /\ ~call.trace[2].input.params.def
    /\ FetchUrl = <<"s", "/", "v", "/", "p">>

----------------------------------------------------------------------------
(* Properties of the client's fields (SpecClientOps) *)

\* C18: after any sequence of addMiddleware, request, getUrl, createResource
\* and createCustomResource calls, the middleware list is the sequence of the
\* addMiddleware arguments in call order (nothing removed, reordered or
\* deduplicated) and the stored base URL and config are the ones fixed at
\* construction: a step either appends its argument to the list or leaves
\* the list as it is, and no step changes the base URL or the config.
C18_ClientFields ==
    [][/\ middlewares' = added'
       /\ \/ middlewares' = middlewares
          \/ /\ Len(middlewares') = Len(middlewares) + 1
             /\ SubSeq(middlewares', 1, Len(middlewares)) = middlewares
             /\ call' = call /\ ret' = ret /\ resource' = resource
       /\ (call' # call \/ ret' # ret \/ resource' # resource) =>
             middlewares' = middlewares
       /\ baseUrl' = baseUrl
       /\ config' = config]_vars

C18_Witness ==
    /\ baseUrlArg = Some(<<"s", "/">>) /\ baseUrl = <<"s">>
    /\ config.errorHandler = "rejectMessage"
    /\ middlewares = <<"XTestB", "XTestB">>
    /\ added = <<"XTestB", "XTestB">>
    /\ call.state = "rejected" /\ call.trace = <<>>
    /\ ret.called
    /\ resource.created /\ resource.custom

----------------------------------------------------------------------------
(* Properties of transport failure (SpecFailure) *)

\* C19: when the transport itself fails, request rejects with exactly the
\* reason the transport produced: the configured errorHandler is not called,
\* the status dispatch is not reached (no response, no JSON decoding), and no
\* second transport call is made.
C19_TransportFailure ==
    call.failure.def =>
        /\ call.state = "rejected"
        /\ call.value = ValError(call.failure.val)
        /\ call.handlerCalls = <<>>
        /\ call.jsonCalls = 0
        /\ ~call.response.def
        /\ Len(call.fetched) = 1

C19_Witness ==
    /\ call.failure = Some("AbortError")
    /\ config.errorHandler = "resolveUndefined"
    /\ call.state = "rejected"
    /\ call.value = ValError("AbortError")

----------------------------------------------------------------------------
(* Properties of concurrent requests (SpecConcurrent) *)

RECURSIVE TransportCalls(_)
TransportCalls(cs) ==
    IF cs = <<>> THEN 0 ELSE Len(Head(cs).fetched) + TransportCalls(Tail(cs))

\* C20: every request invocation issues exactly one transport call whatever
\* its outcome, so n calls (also identical ones in flight together, answered
\* in any order) make n transport calls; each call's transport call is the one
\* of its own arguments and its outcome is the one of its own response; nothing
\* is deduplicated, cached or queued.
C20_Independent ==
    /\ TransportCalls(calls) = Len(calls)
    /\ \A i \in 1..Len(calls) :
          LET c == calls[i]
              params == IF c.config.def THEN c.config.val.params ELSE None
          IN  /\ Len(c.fetched) = 1
              /\ c.fetched[1].url = getUrl(baseUrl, c.path, params)
              /\ c.fetched[1].options["method"] = c.method
              /\ (c.state = "pending") <=> (~c.response.def /\ ~c.failure.def)
              /\ c.response.def =>
                    /\ c.state = Dispatch(config, c.response.val).state
                    /\ c.value = Dispatch(config, c.response.val).value
              /\ c.failure.def =>
                    c.state = "rejected" /\ c.value = ValError(c.failure.val)

C20_Witness ==
    /\ Len(calls) = 2
    /\ calls[1].path = calls[2].path /\ calls[1].config = calls[2].config
    /\ calls[1].fetched = calls[2].fetched
    /\ calls[1].state = "pending"
    /\ calls[2].state = "resolved"
    /\ calls[2].value = ValJson(<<Entry(<<"r">>, Str(<<"q">>))>>)

----------------------------------------------------------------------------
(* Properties of middleware registered late (SpecLate) *)

AppliedTo(c) == [i \in 1..Len(c.trace) |-> c.trace[i].middleware]

\* C21: the middleware applied to a request are exactly those registered
\* before request was called: no step (an addMiddleware least of all) changes
\* the transport call or the applied middleware of a request made earlier, and
\* a request made in a step, directly or through a resource created before
\* the middleware were added, gets every middleware registered by then.
C21_RegisteredBeforeCall ==
    [][/\ Len(calls') >= Len(calls)
       /\ \A i \in 1..Len(calls) :
             /\ calls'[i].fetched = calls[i].fetched
             /\ calls'[i].trace = calls[i].trace
       /\ Len(calls') > Len(calls) =>
             LET c == calls'[Len(calls')]
             IN  /\ Len(calls') = Len(calls) + 1
                 /\ AppliedTo(c) = middlewares
                 /\ AppliedTo(c) = added
                 /\ HeadersOf(c.fetched[1].options)
                        = ExpectedHeaders(middlewares, c.config)]_vars

\* a list call in flight since before the middleware was added, and a later
\* list call through the same resource that got the middleware
C21_Witness ==
    /\ Len(calls) = 2
    /\ middlewares = <<"XTestA">>
    /\ calls[1].path = <<"u", "/">> /\ calls[2].path = <<"u", "/">>
    /\ calls[1].state = "pending" /\ AppliedTo(calls[1]) = <<>>
    /\ HeadersOf(calls[1].fetched[1].options) = EmptyObject
    /\ AppliedTo(calls[2]) = <<"XTestA">>
    /\ HeadersOf(calls[2].fetched[1].options) =
          ("X-Test" :> "a") @@ ("X-CSRFToken" :> "abcdefg")

----------------------------------------------------------------------------
(* Properties of list with empty caller values (SpecList) *)

\* the query string of a URL, '' when it has none
QueryOf(url) == IF "?" \in Range(url) THEN Split(url, "?")[2] ELSE <<>>

\* the key/value pairs the transport's URL carries
SentPairs ==
    LET pairs == Pairs(QueryOf(FetchUrl))
    IN  {ParsedPair(pairs[i]) : i \in 1..Len(pairs)}

\* C22: in list, a caller param whose value is null, undefined or '' still
\* overrides the default of the same key, so that key is not in the query
\* string at all (the default value is not sent); a default key the caller
\* does not mention is sent with its default value; and the resource's stored
\* default params are the same after the call.
C22_EmptyOverrides ==
    OnResourceOp({"list"}) =>
        LET defaults == OrEmpty(invoked.receiver.params)
            given == OrEmpty(invoked.params)
        IN  /\ \A i \in 1..Len(given) :
                  ~Survives(given[i]) =>
                      \A pair \in SentPairs : pair.k # given[i].k
            /\ \A i \in 1..Len(defaults) :
                  ~HasKey(given, defaults[i].k) =>
                      Entry(defaults[i].k, Rendered(defaults[i].v)) \in SentPairs
            /\ resource = invoked.receiver

C22_Witness ==
    /\ OnResourceOp({"list"})
    /\ resource.params =
          Some(<<Entry(<<"a">>, Num(1)), Entry(<<"x">>, Str(<<"2">>))>>)
    /\ invoked.params = Some(<<Entry(<<"a">>, Null)>>)
    /\ FetchUrl = <<"/", "a", "p", "i", "/", "u", "/", "?", "x", "=", "2">>

====
